---- MODULE Spec2Model ----
(***************************************************************************)
(* Model of parmed/gromacs/gromacsgro.py: GromacsGroFile.id_format, parse  *)
(* and write.  Text is modelled as sequences of one-character strings, a   *)
(* line keeps its trailing "\n", and a file is a sequence of lines.        *)
(* Lengths and velocities are integers counting 10^-5 nm = 10^-4 angstrom, *)
(* so a number printed in nanometres with up to 5 decimals, and the same   *)
(* length held in memory in angstroms (the code's *10 and /10), are both   *)
(* exact.  Character positions are 0-based, as in the code.  The geometry  *)
(* helpers and the Structure container are collaborators: a box is held as *)
(* the three vectors that pass through them.                               *)
(***************************************************************************)
EXTENDS Integers, Sequences, FiniteSets, TLC

\* ---------------------------------------------------------------- bounds
MaxAtoms == 2

\* ----------------------------------------------------------------- units
\* the box line's '%10.5f' is the finest resolution the codec writes
UnitDecimals == 5

RECURSIVE Pow10(_)
Pow10(k) == IF k = 0 THEN 1 ELSE 10 * Pow10(k - 1)

ANGSTROM == Pow10(UnitDecimals - 1)

\* the code's *10 and /10: one nanometre is ten angstroms
NM == 10 * ANGSTROM

\* ------------------------------------------------- Python text primitives
DigitChars == <<"0","1","2","3","4","5","6","7","8","9">>

IsDigit(c) == \E d \in 1..10 : DigitChars[d] = c

DigitVal(c) == (CHOOSE d \in 1..10 : DigitChars[d] = c) - 1

IsSpace(c) == c \in {" ", "\n", "\t", "\r"}

SetMin(S) == CHOOSE m \in S : \A x \in S : m <= x

SetMax(S) == CHOOSE m \in S : \A x \in S : m >= x

Abs(x) == IF x < 0 THEN -x ELSE x

Spaces(n) == [i \in 1..n |-> " "]

\* s[a:b] with Python's treatment of negative and out-of-range bounds
PyIdx(i, n) == IF i < 0 THEN (IF i + n < 0 THEN 0 ELSE i + n)
               ELSE (IF i > n THEN n ELSE i)

Slice(s, a, b) ==
  LET lo == PyIdx(a, Len(s))
      hi == PyIdx(b, Len(s))
  IN  IF lo >= hi THEN <<>> ELSE SubSeq(s, lo + 1, hi)

\* s.strip(): leading and trailing blanks removed
RECURSIVE LStrip(_)
LStrip(s) == IF s # <<>> /\ IsSpace(s[1]) THEN LStrip(Tail(s)) ELSE s

RECURSIVE RStrip(_)
RStrip(s) == IF s # <<>> /\ IsSpace(s[Len(s)])
             THEN RStrip(SubSeq(s, 1, Len(s) - 1)) ELSE s

Strip(s) == RStrip(LStrip(s))

\* s.index(c, start): 0-based position of the first c at or after start,
\* -1 where Python raises ValueError
RECURSIVE Index(_, _, _)
Index(s, c, start) ==
  IF start >= Len(s) THEN -1
  ELSE IF s[start + 1] = c THEN start
  ELSE Index(s, c, start + 1)

\* [i for i, x in enumerate(line) if x == c], ascending
RECURSIVE Ascending(_)
Ascending(S) == IF S = {} THEN <<>>
                ELSE <<SetMin(S)>> \o Ascending(S \ {SetMin(S)})

Positions(s, c) == Ascending({i \in 0..(Len(s) - 1) : s[i + 1] = c})

\* s.split(): the maximal runs of non-blank characters
RECURSIVE FirstBlank(_, _)
FirstBlank(s, i) == IF i > Len(s) \/ IsSpace(s[i]) THEN i ELSE FirstBlank(s, i + 1)

RECURSIVE Split(_)
Split(s) ==
  LET t == LStrip(s)
      e == FirstBlank(t, 1)
  IN  IF t = <<>> THEN <<>>
      ELSE <<SubSeq(t, 1, e - 1)>> \o Split(SubSeq(t, e, Len(t)))

RECURSIVE DigitsToNat(_)
DigitsToNat(s) == IF s = <<>> THEN 0
                  ELSE 10 * DigitsToNat(SubSeq(s, 1, Len(s) - 1))
                       + DigitVal(s[Len(s)])

AllDigits(s) == \A i \in 1..Len(s) : IsDigit(s[i])

HasSign(t) == t # <<>> /\ t[1] \in {"-", "+"}

Unsigned(t) == IF HasSign(t) THEN SubSeq(t, 2, Len(t)) ELSE t

\* int(s): blanks stripped, optional sign, one or more digits; ok = FALSE
\* where Python raises ValueError
PyInt(s) ==
  LET t == Strip(s)
      body == Unsigned(t)
      ok == body # <<>> /\ AllDigits(body)
  IN  [ok |-> ok,
       val |-> IF ~ok THEN 0
               ELSE IF t[1] = "-" THEN -DigitsToNat(body)
               ELSE DigitsToNat(body)]

\* float(s) as a count of LengthUnits: blanks stripped, optional sign,
\* digits with at most one point and at least one digit.  Decimals past
\* UnitDecimals are dropped; exponents, inf and nan are not model inputs.
PyFloat(s) ==
  LET t == Strip(s)
      body == Unsigned(t)
      dot == Index(body, ".", 0)
      ipart == IF dot < 0 THEN body ELSE SubSeq(body, 1, dot)
      fpart == IF dot < 0 THEN <<>> ELSE SubSeq(body, dot + 2, Len(body))
      ok == /\ AllDigits(ipart) /\ AllDigits(fpart)
            /\ Len(ipart) + Len(fpart) > 0
      kept == IF Len(fpart) > UnitDecimals THEN SubSeq(fpart, 1, UnitDecimals)
              ELSE fpart
      mag == DigitsToNat(ipart) * NM
             + DigitsToNat(kept) * Pow10(UnitDecimals - Len(kept))
  IN  [ok |-> ok,
       val |-> IF ~ok THEN 0 ELSE IF t[1] = "-" THEN -mag ELSE mag]

\* ------------------------------------------------------ Python % formats
RECURSIVE NatToStr(_)
NatToStr(n) == IF n < 10 THEN <<DigitChars[n + 1]>>
               ELSE NatToStr(n \div 10) \o <<DigitChars[(n % 10) + 1]>>

PadLeft(s, w) == IF Len(s) >= w THEN s ELSE Spaces(w - Len(s)) \o s

PadRight(s, w) == IF Len(s) >= w THEN s ELSE s \o Spaces(w - Len(s))

\* '%wd' % n : right-justified, never shortened
FmtD(n, w) == PadLeft(IF n < 0 THEN <<"-">> \o NatToStr(-n) ELSE NatToStr(n), w)

\* '%ws' % s and '%-ws' % s : padded, never shortened
FmtS(s, w) == PadLeft(s, w)

FmtSLeft(s, w) == PadRight(s, w)

ZeroPad(s, w) == IF Len(s) >= w THEN s ELSE [i \in 1..(w - Len(s)) |-> "0"] \o s

\* FmtF with the digits past the p-th dropped instead of rounded
FmtFTruncating(v, w, p, tieUp) ==
  LET q == Abs(v) \div Pow10(UnitDecimals - p)
      body == NatToStr(q \div Pow10(p))
              \o (IF p > 0 THEN <<".">> \o ZeroPad(NatToStr(q % Pow10(p)), p)
                  ELSE <<>>)
  IN  PadLeft(IF v < 0 THEN <<"-">> \o body ELSE body, w)

\* '%w.pf' % x for the length v = x nm: rounded to p decimals (a value
\* halfway between two neighbours goes where its binary representation
\* falls, tieUp), sign kept on a negative that rounds to zero, padded to w,
\* never shortened
FmtF(v, w, p, tieUp) ==
  LET scale == Pow10(UnitDecimals - p)
      mag == Abs(v)
      rest == mag % scale
      q == IF 2 * rest > scale \/ (2 * rest = scale /\ tieUp)
           THEN (mag \div scale) + 1 ELSE mag \div scale
      body == NatToStr(q \div Pow10(p))
              \o (IF p > 0 THEN <<".">> \o ZeroPad(NatToStr(q % Pow10(p)), p)
                  ELSE <<>>)
  IN  PadLeft(IF v < 0 THEN <<"-">> \o body ELSE body, w)

\* ------------------------------------------------------------ structures
SOL == <<"S","O","L">>
LIGAND == <<"L","I","G","A","N","D">>
OW == <<"O","W">>
HW1 == <<"H","W","1">>
CARBON1 == <<"C","1">>

NoVel == <<>>

\* an atom as write reads it: atom.residue.name, atom.name, (xx, xy, xz)
\* and, where the atom has them, (vx, vy, vz)
AtomPool ==
  { [resname |-> SOL, name |-> OW, vel |-> NoVel,
     pos |-> <<10 * ANGSTROM, 20 * ANGSTROM, 30 * ANGSTROM>>],
    [resname |-> SOL, name |-> HW1, vel |-> NoVel,
     pos |-> <<12360, 0, -50>>],
    [resname |-> SOL, name |-> OW, vel |-> <<ANGSTROM, -12345678, 4>>,
     pos |-> <<10 * ANGSTROM, 20 * ANGSTROM, 30 * ANGSTROM>>],
    [resname |-> LIGAND, name |-> CARBON1, vel |-> NoVel,
     pos |-> <<-100000400, 20 * ANGSTROM, 30 * ANGSTROM>>] }

NoVectors == <<<<0, 0, 0>>, <<0, 0, 0>>, <<0, 0, 0>>>>

NoBox == [kind |-> "none", vecs |-> NoVectors]

\* struct.box, held as the three vectors that stand for it: "ortho" when
\* the three angles are 90 degrees, "tric" otherwise
BoxPool ==
  { NoBox,
    [kind |-> "ortho",
     vecs |-> <<<<30 * ANGSTROM, 0, 0>>, <<0, 40 * ANGSTROM, 0>>, <<0, 0, 50 * ANGSTROM>>>>],
    [kind |-> "tric",
     vecs |-> <<<<30 * ANGSTROM, 0, 0>>, <<-10 * ANGSTROM, 28 * ANGSTROM, 0>>,
               <<5 * ANGSTROM, 6 * ANGSTROM, 25 * ANGSTROM>>>>] }

Structures ==
  { [atoms |-> a, box |-> b] :
      a \in UNION { [1..n -> AtomPool] : n \in 0..MaxAtoms }, b \in BoxPool }

\* atom.residue.idx: Structure.add_atom opens a new residue whenever the
\* residue name differs from the previous atom's
ResidueIdx(atoms, k) ==
  Cardinality({j \in 2..k : atoms[j].resname # atoms[j - 1].resname})

\* -------------------------------------------------------------- write
\* 'GROningen MAchine for Chemical Simulation\n'
TitleLine ==
  <<"G","R","O","n","i","n","g","e","n"," ","M","A","c","h","i","n","e"," ","f","o","r"," ","C","h","e","m","i","c","a","l"," ","S","i","m","u","l","a","t","i","o","n","\n">>

\* precision=3 is the default of write
DefaultPrecision == 3

Precisions == {DefaultPrecision - 1, DefaultPrecision}

DestKinds == {"name", "object", "invalid"}

\* all(hasattr(a, 'vx') for a in struct.atoms)
HasVels(atoms) == \A k \in 1..Len(atoms) : atoms[k].vel # NoVel

\* (fmt % x)[:varwidth]
Clip(txt, varwidth) == Slice(txt, 0, varwidth)

\* '%5d%-5s%5s%5d' % (atom.residue.idx+1, atom.residue.name, atom.name,
\*                    atom.idx+1)
AtomHeader(atoms, k) ==
  FmtD(ResidueIdx(atoms, k) + 1, 5) \o FmtSLeft(atoms[k].resname, 5)
  \o FmtS(atoms[k].name, 5) \o FmtD(k, 5)

CoordFields(atom, precision, tieUp) ==
  LET varwidth == 5 + precision
  IN  Clip(FmtF(atom.pos[1], varwidth, precision, tieUp), varwidth)
      \o Clip(FmtF(atom.pos[2], varwidth, precision, tieUp), varwidth)
      \o Clip(FmtF(atom.pos[3], varwidth, precision, tieUp), varwidth)

VelFields(atom, precision, tieUp) ==
  LET varwidth == 5 + precision
  IN  Clip(FmtF(atom.vel[1], varwidth, precision + 1, tieUp), varwidth)
      \o Clip(FmtF(atom.vel[2], varwidth, precision + 1, tieUp), varwidth)
      \o Clip(FmtF(atom.vel[3], varwidth, precision + 1, tieUp), varwidth)

AtomLine(atoms, k, precision, tieUp) ==
  AtomHeader(atoms, k)
  \o CoordFields(atoms[k], precision, tieUp)
  \o (IF HasVels(atoms) THEN VelFields(atoms[k], precision, tieUp) ELSE <<>>)
  \o <<"\n">>

\* the loop of lines 194-204 over the first n atoms
RECURSIVE AtomLines(_, _, _, _)
AtomLines(atoms, n, precision, tieUp) ==
  IF n = 0 THEN <<>>
  ELSE Append(AtomLines(atoms, n - 1, precision, tieUp),
              AtomLine(atoms, n, precision, tieUp))

CountLine(atoms) == FmtD(Len(atoms), 5) \o <<"\n">>

\* the order in which write lays the nine components of the vectors
\* a, b, c on the box line
BoxLineOrder(v) ==
  <<v[1][1], v[2][2], v[3][3], v[1][2], v[1][3], v[2][1], v[2][3], v[3][1], v[3][2]>>

RECURSIVE FmtBox(_, _)
FmtBox(vals, tieUp) ==
  IF vals = <<>> THEN <<>>
  ELSE FmtF(vals[1], 10, UnitDecimals, tieUp) \o FmtBox(Tail(vals), tieUp)

\* the box line of a structure that has a box
BoxLine(box, tieUp) ==
  (IF box.kind = "ortho"
   THEN FmtBox(<<box.vecs[1][1], box.vecs[2][2], box.vecs[3][3]>>, tieUp)
   ELSE FmtBox(BoxLineOrder(box.vecs), tieUp))
  \o <<"\n">>

\* max - min of one coordinate over all atoms (seeded with atoms 0 and 1)
Extent(atoms, axis) ==
  SetMax({atoms[k].pos[axis] : k \in 1..Len(atoms)})
  - SetMin({atoms[k].pos[axis] : k \in 1..Len(atoms)})

\* the box line derived from the atoms when the structure has no box
DerivedBoxLine(atoms, tieUp) ==
  FmtBox(<<Extent(atoms, 1) + 5 * ANGSTROM,
           Extent(atoms, 2) + 5 * ANGSTROM,
           Extent(atoms, 3) + 5 * ANGSTROM>>, tieUp)
  \o <<"\n">>

\* what write has emitted when it reaches (or fails to reach) line 231
WriteBody(s, precision, nobox, tieUp) ==
  LET head == <<TitleLine, CountLine(s.atoms)>>
              \o AtomLines(s.atoms, Len(s.atoms), precision, tieUp)
  IN  IF s.box.kind # "none"
      THEN [status |-> "ok", out |-> Append(head, BoxLine(s.box, tieUp))]
      ELSE IF ~nobox /\ Len(s.atoms) > 0
      THEN IF Len(s.atoms) < 2
           THEN [status |-> "IndexError", out |-> head]
           ELSE [status |-> "ok", out |-> Append(head, DerivedBoxLine(s.atoms, tieUp))]
      ELSE [status |-> "ok", out |-> head]

\* the whole call: status raised or "ok", the lines emitted, and whether
\* the destination was closed
WriteOutcome(s, dest, precision, nobox, tieUp) ==
  LET body == WriteBody(s, precision, nobox, tieUp)
  IN  IF dest = "invalid"
      THEN [status |-> "TypeError", out |-> <<>>, closed |-> FALSE]
      ELSE IF body.status # "ok"
      THEN [status |-> body.status, out |-> body.out, closed |-> FALSE]
      ELSE IF dest = "name"
      THEN [status |-> "ok", out |-> body.out, closed |-> TRUE]
      ELSE [status |-> "UnboundLocalError", out |-> body.out, closed |-> FALSE]

\* -------------------------------------------------------------- parse
\* f.readline() of the k-th line (1-based): '' at end of file
ReadLine(lines, k) == IF k <= Len(lines) THEN lines[k] ELSE <<>>

\* line.index('.', 20) and line.index('.', pdeci+1) on the first atom
\* line; digits = ndeci - pdeci
Layout(line) ==
  LET pdeci == Index(line, ".", 20)
      ndeci == IF pdeci < 0 THEN -1 ELSE Index(line, ".", pdeci + 1)
  IN  [ok |-> pdeci >= 0 /\ ndeci >= 0,
       pdeci |-> pdeci, ndeci |-> ndeci, digits |-> ndeci - pdeci]

\* line[20+i*digits : 20+(i+1)*digits], i = 0..2
PosField(line, lay, i) == Slice(line, 20 + i * lay.digits, 20 + (i + 1) * lay.digits)

\* line[wbeg:wend] with i = 4: the columns parse tests for a velocity
VelProbe(line, lay) ==
  Slice(line, (lay.pdeci - 4) + (5 + lay.ndeci) * 3,
              (lay.pdeci - 4) + (5 + lay.ndeci) * 4)

\* line[(pdeci-3)+(6+ndeci)*i : (pdeci-3)+(6+ndeci)*(i+1)], i = 3..5
VelField(line, lay, i) ==
  Slice(line, (lay.pdeci - 3) + (6 + lay.ndeci) * i,
              (lay.pdeci - 3) + (6 + lay.ndeci) * (i + 1))

NotANumber == [ok |-> FALSE, val |-> 0]

\* one pass of the loop body, lines 109-130; ok = FALSE where the code
\* raises GromacsError for the record
DecodeAtom(line, lay) ==
  LET resnum == PyInt(Slice(line, 0, 5))
      atnum == PyInt(Slice(line, 15, 20))
      x == IF lay.ok
           THEN <<PyFloat(PosField(line, lay, 0)), PyFloat(PosField(line, lay, 1)),
                  PyFloat(PosField(line, lay, 2))>>
           ELSE <<NotANumber, NotANumber, NotANumber>>
      hasvel == lay.ok /\ Strip(VelProbe(line, lay)) # <<>>
      v == IF hasvel
           THEN <<PyFloat(VelField(line, lay, 3)), PyFloat(VelField(line, lay, 4)),
                  PyFloat(VelField(line, lay, 5))>>
           ELSE <<>>
      ok == /\ resnum.ok /\ atnum.ok /\ lay.ok
            /\ \A i \in 1..3 : x[i].ok
            /\ \A i \in 1..Len(v) : v[i].ok
  IN  [ok |-> ok,
       atom |-> [resnum |-> resnum.val,
                 resname |-> Strip(Slice(line, 5, 10)),
                 name |-> Strip(Slice(line, 10, 15)),
                 number |-> atnum.val,
                 pos |-> <<x[1].val, x[2].val, x[3].val>>,
                 vel |-> IF hasvel /\ ok THEN <<v[1].val, v[2].val, v[3].val>>
                         ELSE NoVel]]

\* BoxVectorsFromTokens reading the nine values as
\* (v1x, v2x, v2y, v3x, v3y, v3z, v1y, v1z, v2z)
BoxVectorsRowWise(box) ==
  <<<<box[1], box[7], box[8]>>, <<box[2], box[3], box[9]>>, <<box[4], box[5], box[6]>>>>

\* the three vectors parse builds from the nine values of a box line:
\* [box[0], box[3], box[4]], [box[5], box[1], box[6]], [box[7], box[8], box[2]]
BoxVectorsFromTokens(box) ==
  <<<<box[1], box[4], box[5]>>, <<box[6], box[2], box[7]>>, <<box[8], box[9], box[3]>>>>

\* [float(x) for x in line.split()]
RECURSIVE FloatAll(_)
FloatAll(toks) ==
  IF toks = <<>> THEN <<>> ELSE <<PyFloat(toks[1])>> \o FloatAll(Tail(toks))

\* lines 136-155 on the line the loop stopped at; a line of neither 3
\* nor 9 values leaves the structure without a box
DecodeBox(line) ==
  LET toks == Split(line)
      vals == FloatAll(toks)
      box == [k \in 1..Len(toks) |-> vals[k].val]
  IN  IF Strip(line) = <<>> THEN [ok |-> TRUE, box |-> NoBox]
      ELSE IF \E k \in 1..Len(toks) : ~vals[k].ok THEN [ok |-> FALSE, box |-> NoBox]
      ELSE IF Len(toks) = 3
      THEN [ok |-> TRUE,
            box |-> [kind |-> "ortho",
                     vecs |-> <<<<box[1], 0, 0>>, <<0, box[2], 0>>, <<0, 0, box[3]>>>>]]
      ELSE IF Len(toks) = 9
      THEN [ok |-> TRUE, box |-> [kind |-> "tric", vecs |-> BoxVectorsFromTokens(box)]]
      ELSE [ok |-> TRUE, box |-> NoBox]

\* the loop of lines 106-134 over the first n of the lines
RECURSIVE DecodeAll(_, _, _)
DecodeAll(rest, n, lay) ==
  IF n = 0 THEN <<>>
  ELSE Append(DecodeAll(rest, n - 1, lay), DecodeAtom(rest[n], lay))

Failure(status, where) ==
  [status |-> status, where |-> where, atoms |-> <<>>, box |-> NoBox]

\* the whole of parse on the lines of a file: the structure returned, or
\* the exception raised and the step that raised it
ParseOutcome(lines) ==
  LET natom == PyInt(Strip(ReadLine(lines, 2)))
      rest == IF Len(lines) > 2 THEN SubSeq(lines, 3, Len(lines)) ELSE <<>>
      \* enumerate(fileobj) stops at i == natom or at end of file
      stopped == natom.val >= 0 /\ natom.val < Len(rest)
      nread == IF stopped THEN natom.val ELSE Len(rest)
      lay == Layout(rest[1])
      dec == DecodeAll(rest, nread, lay)
      line == IF stopped THEN rest[natom.val + 1] ELSE rest[Len(rest)]
      box == DecodeBox(line)
  IN  IF ~natom.ok THEN Failure("GromacsError", "header")
      ELSE IF \E k \in 1..nread : ~dec[k].ok THEN Failure("GromacsError", "record")
      ELSE IF rest = <<>> THEN Failure("UnboundLocalError", "line")
      ELSE IF ~box.ok THEN Failure("GromacsError", "box")
      ELSE [status |-> "ok", where |-> "return",
            atoms |-> [k \in 1..nread |-> dec[k].atom], box |-> box.box]

\* ----------------------------------------------------------- id_format
\* line[wbeg:wend] with wbeg = (pdeci[0]-4)+(5+ndeci)*(i-1) and
\* wend = (pdeci[0]-4)+(5+ndeci)*i, i = 1..6
SniffField(line, pdeci, i) ==
  LET ndeci == pdeci[2] - pdeci[1] - 5
  IN  Slice(line, (pdeci[1] - 4) + (5 + ndeci) * (i - 1),
                  (pdeci[1] - 4) + (5 + ndeci) * i)

\* the whole of id_format on the lines of a file: the boolean returned,
\* or the exception that escapes
IdFormatOutcome(lines) ==
  LET line == ReadLine(lines, 3)
      pdeci == Positions(line, ".")
      Returns(b) == [status |-> "ok", ret |-> b]
  IN  IF ~PyInt(Strip(ReadLine(lines, 2))).ok THEN Returns(FALSE)
      ELSE IF ~PyInt(Slice(line, 0, 5)).ok THEN Returns(FALSE)
      ELSE IF Strip(Slice(line, 5, 10)) = <<>> THEN Returns(FALSE)
      ELSE IF Strip(Slice(line, 10, 15)) = <<>> THEN Returns(FALSE)
      ELSE IF ~PyInt(Slice(line, 15, 20)).ok THEN Returns(FALSE)
      ELSE IF Len(pdeci) < 2 THEN [status |-> "IndexError", ret |-> FALSE]
      ELSE IF \E i \in 1..3 : ~PyFloat(SniffField(line, pdeci, i)).ok THEN Returns(FALSE)
      ELSE IF Strip(SniffField(line, pdeci, 4)) = <<>> THEN Returns(TRUE)
      ELSE IF \E i \in 4..6 : ~PyFloat(SniffField(line, pdeci, i)).ok THEN Returns(FALSE)
      ELSE Returns(TRUE)

\* ------------------------------------------------------- the state machine
\* files as they may lie on disk before any call
FileZeroAtomsBox ==
  << <<"t","\n">>,
     <<" "," "," "," ","0","\n">>,
     <<" "," "," ","3",".","0","0","0","0","0"," "," "," ","3",".","0","0","0","0","0"," "," "," ","3",".","0","0","0","0","0","\n">> >>

FileBlankResname ==
  << <<"t","\n">>,
     <<" "," "," "," ","1","\n">>,
     <<" "," "," "," ","1"," "," "," "," "," "," "," "," ","O","W"," "," "," "," ","1"," "," "," ","1",".","0","0","0"," "," "," ","2",".","0","0","0"," "," "," ","3",".","0","0","0","\n">>,
     <<" "," "," ","3",".","0","0","0","0","0"," "," "," ","3",".","0","0","0","0","0"," "," "," ","3",".","0","0","0","0","0","\n">> >>

FileNoDecimals ==
  << <<"t","\n">>,
     <<" "," "," "," ","1","\n">>,
     <<" "," "," "," ","1","S","O","L"," "," "," "," "," ","O","W"," "," "," "," ","1"," "," "," ","1"," "," "," ","2"," "," "," ","3","\n">>,
     <<" "," "," ","3",".","0","0","0","0","0"," "," "," ","3",".","0","0","0","0","0"," "," "," ","3",".","0","0","0","0","0","\n">> >>

FileBadCount ==
  << <<"t","\n">>,
     <<"a","b","c","\n">>,
     <<" "," "," "," ","1","S","O","L"," "," "," "," "," ","O","W"," "," "," "," ","1"," "," "," ","1",".","0","0","0"," "," "," ","2",".","0","0","0"," "," "," ","3",".","0","0","0","\n">>,
     <<" "," "," ","3",".","0","0","0","0","0"," "," "," ","3",".","0","0","0","0","0"," "," "," ","3",".","0","0","0","0","0","\n">> >>

FileTitleOnly ==
  << <<"t","\n">> >>

FileTriclinic ==
  << <<"t","\n">>,
     <<" "," "," "," ","0","\n">>,
     <<"1"," ","2"," ","3"," ","4"," ","5"," ","6"," ","7"," ","8"," ","9","\n">> >>

FileBadBox ==
  << <<"t","\n">>,
     <<" "," "," "," ","1","\n">>,
     <<" "," "," "," ","1","S","O","L"," "," "," "," "," ","O","W"," "," "," "," ","1"," "," "," ","1",".","0","0","0"," "," "," ","2",".","0","0","0"," "," "," ","3",".","0","0","0","\n">>,
     <<"3",".","0"," ","x"," ","3",".","0","\n">> >>

FileCountOnly ==
  << <<"t","\n">>,
     <<" "," "," "," ","0","\n">> >>

FileExample ==
  << <<"T","e","s","t","\n">>,
     <<" "," "," "," ","2","\n">>,
     <<" "," "," "," ","1","S","O","L"," "," "," "," "," ","O","W"," "," "," "," ","1"," "," "," ","1",".","0","0","0"," "," "," ","2",".","0","0","0"," "," "," ","3",".","0","0","0","\n">>,
     <<" "," "," "," ","1","S","O","L"," "," "," "," ","H","W","1"," "," "," "," ","2"," "," "," ","1",".","1","0","0"," "," "," ","2",".","0","0","0"," "," "," ","3",".","0","0","0","\n">>,
     <<" "," "," ","3",".","0","0","0","0","0"," "," "," ","3",".","0","0","0","0","0"," "," "," ","3",".","0","0","0","0","0","\n">> >>

FileShortRecord ==
  << <<"t","\n">>,
     <<" "," "," "," ","1","\n">>,
     <<" "," "," "," ","1","S","O","L","\n">>,
     <<" "," "," ","3",".","0","0","0","0","0"," "," "," ","3",".","0","0","0","0","0"," "," "," ","3",".","0","0","0","0","0","\n">> >>

FileBadRecord ==
  << <<"t","\n">>,
     <<" "," "," "," ","1","\n">>,
     <<" "," "," "," ","x","S","O","L"," "," "," "," "," ","O","W"," "," "," "," ","1"," "," "," ","1",".","0","0","0"," "," "," ","2",".","0","0","0"," "," "," ","3",".","0","0","0","\n">>,
     <<" "," "," ","3",".","0","0","0","0","0"," "," "," ","3",".","0","0","0","0","0"," "," "," ","3",".","0","0","0","0","0","\n">> >>

FileFiveTokenBox ==
  << <<"t","\n">>,
     <<" "," "," "," ","1","\n">>,
     <<" "," "," "," ","1","S","O","L"," "," "," "," "," ","O","W"," "," "," "," ","1"," "," "," ","1",".","0","0","0"," "," "," ","2",".","0","0","0"," "," "," ","3",".","0","0","0","\n">>,
     <<"1"," ","2"," ","3"," ","4"," ","5","\n">> >>

HandFiles ==
  { FileZeroAtomsBox, FileBlankResname, FileNoDecimals, FileBadCount,
    FileTitleOnly, FileTriclinic, FileBadBox, FileCountOnly, FileExample,
    FileShortRecord, FileBadRecord, FileFiveTokenBox }

VARIABLES
  struct,   \* the Structure the caller holds and passes to write
  file,     \* the lines of the named file on disk
  origin,   \* how the file got its content: by hand, or by which write call
  sink,     \* the caller's own writable object passed to write as dest
  handle,   \* the handle the last call opened itself: none, open or closed
  result    \* the last call: its arguments and what it returned or raised

vars == <<struct, file, origin, sink, handle, result>>

ByHand == [by |-> "hand", precision |-> 0, nobox |-> FALSE, status |-> "ok"]

NoCall ==
  [op |-> "none", arg |-> "none",
   status |-> "ok", where |-> "none", ret |-> FALSE, atoms |-> <<>>, box |-> NoBox]

\* the caller's writable object before anything is written to it
NoSink == [content |-> <<>>, closed |-> FALSE]

\* a structure to write over a file that holds a title only, or a file to
\* read next to the empty structure
Init ==
  /\ \/ struct \in Structures /\ file = FileTitleOnly
     \/ struct = [atoms |-> <<>>, box |-> NoBox] /\ file \in HandFiles
  /\ origin = ByHand
  /\ sink = NoSink
  /\ handle = "none"
  /\ result = NoCall

\* GromacsGroFile.write(struct, dest, precision, nobox); a call that
\* raises after opening the file leaves on disk what it had emitted
Write(dest, precision, nobox, tieUp) ==
  \E o \in {WriteOutcome(struct, dest, precision, nobox, tieUp)} :
      /\ file' = IF dest = "name" THEN o.out ELSE file
      /\ origin' = IF dest = "name"
                   THEN [by |-> "write", precision |-> precision,
                         nobox |-> nobox, status |-> o.status]
                   ELSE origin
      /\ sink' = IF dest = "object"
                 THEN [content |-> o.out, closed |-> o.closed]
                 ELSE NoSink
      /\ handle' = IF dest = "name"
                   THEN (IF o.closed THEN "closed" ELSE "open")
                   ELSE "none"
      /\ result' = [NoCall EXCEPT !.op = "write", !.arg = dest,
                                  !.status = o.status]
      /\ UNCHANGED struct

\* GromacsGroFile.parse(filename): src = "name" opens the file itself,
\* src = "object" reads the caller's open file object
Parse(src) ==
  \E o \in {ParseOutcome(file)} :
      /\ handle' = IF src = "name" THEN "closed" ELSE "none"
      /\ result' = [NoCall EXCEPT !.op = "parse", !.arg = src,
                                  !.status = o.status, !.where = o.where,
                                  !.atoms = o.atoms, !.box = o.box]
      /\ sink' = NoSink
      /\ UNCHANGED <<struct, file, origin>>

\* GromacsGroFile.id_format(filename)
IdFormat ==
  \E o \in {IdFormatOutcome(file)} :
      /\ handle' = "closed"
      /\ result' = [NoCall EXCEPT !.op = "id_format", !.arg = "name",
                                  !.status = o.status, !.ret = o.ret]
      /\ sink' = NoSink
      /\ UNCHANGED <<struct, file, origin>>

Next ==
  \/ \E dest \in DestKinds, precision \in Precisions, nobox \in BOOLEAN,
        tieUp \in BOOLEAN : Write(dest, precision, nobox, tieUp)
  \/ \E src \in {"name", "object"} : Parse(src)
  \/ IdFormat

Spec == Init /\ [][Next]_vars


\* ---------------------------------------------------------------- claims
\* the file on disk is what a write call that returned normally left there
WrittenOk == origin.by = "write" /\ origin.status = "ok"

ParsedOk == result.op = "parse" /\ result.status = "ok"

\* the atom lines and the last line of the file on disk
AtomLineOf(k) == file[2 + k]

LastLine == file[Len(file)]

LastLineValues ==
  LET toks == Split(LastLine)
  IN  [k \in 1..Len(toks) |-> PyFloat(toks[k]).val]

NamesFit(atoms) ==
  \A k \in 1..Len(atoms) : Len(atoms[k].resname) <= 5 /\ Len(atoms[k].name) <= 5

\* x/10 printed as '%8.3f' takes 8 characters: -999.9995 < x/10 < 9999.9995
CoordFits(v) == 50 - 1000 * NM < v /\ v < 10000 * NM - 50

CoordsFit(atoms) ==
  \A k \in 1..Len(atoms) : \A axis \in 1..3 : CoordFits(atoms[k].pos[axis])

\* a file written with precision 3 from a structure with a box and at
\* least one atom with names of at most 5 characters has been parsed
RoundTripCase ==
  /\ WrittenOk /\ origin.precision = DefaultPrecision /\ result.op = "parse"
  /\ struct.box.kind # "none" /\ Len(struct.atoms) >= 1
  /\ NamesFit(struct.atoms)

RoundTripWithin(tolerance) ==
  /\ result.status = "ok"
  /\ Len(result.atoms) = Len(struct.atoms)
  /\ \A k \in 1..Len(struct.atoms) :
       /\ k <= Len(result.atoms)
       /\ result.atoms[k].resname = struct.atoms[k].resname
       /\ result.atoms[k].name = struct.atoms[k].name
       /\ \A axis \in 1..3 :
            Abs(result.atoms[k].pos[axis] - struct.atoms[k].pos[axis]) <= tolerance

\* C1 as stated: parsing what write(precision=3) wrote gives back the same
\* atoms in the same order, with the same residue and atom names and every
\* position component within 0.001 angstrom
C1_RoundTripThousandth == RoundTripCase => RoundTripWithin(ANGSTROM \div 1000)

\* C1 amended: when every coordinate fits its 8-character field, parsing
\* what write(precision=3) wrote gives back the same atoms in the same
\* order, with the same residue and atom names and every position
\* component within 0.005 angstrom (half of the last printed decimal,
\* 0.001 nm)
C1_RoundTripHalfUnit ==
  (RoundTripCase /\ CoordsFit(struct.atoms)) => RoundTripWithin(ANGSTROM \div 200)

C1_Witness ==
  /\ RoundTripCase /\ CoordsFit(struct.atoms) /\ result.status = "ok"
  /\ \E k \in 1..Len(struct.atoms) : \E axis \in 1..3 :
       /\ k <= Len(result.atoms)
       /\ result.atoms[k].pos[axis] # struct.atoms[k].pos[axis]

\* the 4th, 5th and 6th coordinate-width groups of an atom line, the
\* width taken from the first atom line
FieldGroup(line, g) ==
  LET digits == Layout(AtomLineOf(1)).digits
  IN  Slice(line, 20 + (g - 1) * digits, 20 + g * digits)

\* C2: a parsed atom has a velocity if and only if the 4th coordinate-width
\* group of its line is non-blank, and then its three components are the
\* values of the 4th, 5th and 6th groups
C2_VelocityDetection ==
  ParsedOk =>
    \A k \in 1..Len(result.atoms) :
      /\ (result.atoms[k].vel # NoVel) <=> (Strip(FieldGroup(AtomLineOf(k), 4)) # <<>>)
      /\ result.atoms[k].vel # NoVel =>
           result.atoms[k].vel = <<PyFloat(FieldGroup(AtomLineOf(k), 4)).val,
                                   PyFloat(FieldGroup(AtomLineOf(k), 5)).val,
                                   PyFloat(FieldGroup(AtomLineOf(k), 6)).val>>

\* C3: a file of a title, a count N >= 1 and exactly N well-formed atom
\* lines, as write leaves it for a boxless structure with nobox = TRUE, is
\* parsed into N atoms and no box, without raising
C3_BoxlessFileParses ==
  (/\ WrittenOk /\ origin.nobox /\ result.op = "parse"
   /\ struct.box.kind = "none" /\ Len(struct.atoms) >= 1
   /\ NamesFit(struct.atoms))
  => /\ result.status = "ok"
     /\ Len(result.atoms) = Len(struct.atoms)
     /\ result.box.kind = "none"

\* C4: write raises its destination error, with nothing emitted, exactly
\* when dest is neither a file name nor a writable object; given the
\* caller's writable object it emits the title, the count and the atom
\* lines, returns normally and leaves the object open
C4_Destinations ==
  result.op = "write" =>
    /\ (result.status = "TypeError") <=> (result.arg = "invalid")
    /\ result.arg = "invalid" => sink.content = <<>>
    /\ result.arg = "object" =>
         /\ result.status = "ok"
         /\ ~sink.closed
         /\ Len(sink.content) >= 2 + Len(struct.atoms)
         /\ sink.content[1] = TitleLine

\* C5: id_format never raises: it returns a boolean for every file
C5_SnifferNeverRaises == result.op = "id_format" => result.status = "ok"

\* C6: id_format returns true on every file that parse accepts
C6_SnifferAcceptsParsable ==
  ParsedOk => IdFormatOutcome(file) = [status |-> "ok", ret |-> TRUE]

\* C7: no call returns or raises leaving a handle it opened still open
C7_HandleReleased == handle # "open"

\* C8: the box line derived for a boxless structure of at least 2 atoms
\* has 3 values, each the extent of the atoms along that axis plus 5
\* angstroms on each of the two sides
C8_DerivedBoxMargin ==
  (/\ WrittenOk /\ ~origin.nobox
   /\ struct.box.kind = "none" /\ Len(struct.atoms) >= 2)
  => /\ Len(LastLineValues) = 3
     /\ \A axis \in 1..3 :
          LastLineValues[axis] = Extent(struct.atoms, axis) + 2 * (5 * ANGSTROM)

\* C9: every field of a written atom line is cut to its column width, so
\* every atom line has the length its precision and velocity setting fix
C9_FixedWidthLines ==
  WrittenOk =>
    \A k \in 1..Len(struct.atoms) :
      Len(AtomLineOf(k)) =
        20 + 3 * (5 + origin.precision)
        + (IF HasVels(struct.atoms) THEN 3 * (5 + origin.precision) ELSE 0) + 1

\* (vector, component) of the k-th value of a 9-value box line
OrderAsClaimed ==
  <<<<1, 1>>, <<2, 1>>, <<2, 2>>, <<3, 1>>, <<3, 2>>, <<3, 3>>, <<1, 2>>, <<1, 3>>, <<2, 3>>>>

OrderAsCoded ==
  <<<<1, 1>>, <<2, 2>>, <<3, 3>>, <<1, 2>>, <<1, 3>>, <<2, 1>>, <<2, 3>>, <<3, 1>>, <<3, 2>>>>

\* parse gave, and write took, the k-th value of the 9-value box line
\* from the component order[k] of the box vectors
NineValueOrder(order) ==
  /\ (ParsedOk /\ result.box.kind = "tric") =>
       \A k \in 1..9 :
         result.box.vecs[order[k][1]][order[k][2]] = LastLineValues[k]
  /\ (WrittenOk /\ struct.box.kind = "tric") =>
       /\ Len(LastLineValues) = 9
       /\ \A k \in 1..9 :
            LastLineValues[k] = struct.box.vecs[order[k][1]][order[k][2]]

\* C10 as stated: the k-th value of the 9-value box line is the k-th of
\* (v1x, v2x, v2y, v3x, v3y, v3z, v1y, v1z, v2z), in parse and in write
C10_OrderAsClaimed == NineValueOrder(OrderAsClaimed)

\* C10 amended: the k-th value of the 9-value box line is the k-th of
\* (v1x, v2y, v3z, v1y, v1z, v2x, v2z, v3x, v3y), in parse and in write
C10_OrderAsWritten == NineValueOrder(OrderAsCoded)

C10_Witness ==
  /\ WrittenOk /\ struct.box.kind = "tric"
  /\ ParsedOk /\ result.box.kind = "tric"
  /\ result.box.vecs = struct.box.vecs
====
